---------------------------- MODULE Spec2Model ----------------------------
(***************************************************************************)
(* A model of easycli-ui: the espinner package (a bubbletea model that     *)
(* runs one task behind an animated spinner) and the etable package (a     *)
(* table of columns and rows rendered as a grid or exported as CSV).       *)
(*                                                                         *)
(* The two packages share no state.  SpinSpec runs one call of             *)
(* SpinnerModel.Spin (SpinFairSpec adds fair message delivery); TableSpec  *)
(* builds a table of three columns and renders / exports it; CellSpec does *)
(* the same for one column and one row, over every cell configuration.     *)
(***************************************************************************)
EXTENDS Integers, Sequences, FiniteSets, TLC

VARIABLES
    \* ---- espinner ----
    pc,          \* where the caller of Spin is: "new", "running", "returned"
    s,           \* the SpinnerModel the caller holds (Spin's receiver, *s)
    model,       \* the tea.Model the event loop holds
    msgs,        \* messages sent to the program and not yet received by the loop
    task,        \* the task's goroutine: "idle", "running", "returned"
    taskErr,     \* the error the supplied task returns (an input of the run)
    taskCalls,   \* how many times the task was invoked
    stopSent,    \* how many spinnerMsgStop messages were sent to the loop
    rendered,    \* every view written to the renderer so far
    ret,         \* what Spin returned
    hist,        \* what the loop has processed: interrupt / completion order
    \* ---- etable ----
    colsMem,     \* the array behind the []TableColumn slice the caller built
    rowsMem,     \* the array behind the []TableRow slice the caller built
    t,           \* the Table value the caller holds
    out          \* what the last Render or ExportCSV call produced

spinVars == <<pc, s, model, msgs, task, taskErr, taskCalls, stopSent,
              rendered, ret, hist>>

tableVars == <<colsMem, rowsMem, t, out>>

vars == <<spinVars, tableVars>>

-----------------------------------------------------------------------------
(* espinner                                                                *)

\* The nil error, and the errors a task or the program may return.
Nil == "nil"
TaskErrors == {"boom", "timeout"}
RunErrors == {"no tty"}

\* spinner.Line has four frames ("|", "/", "-", "\").
NumFrames == 4

\* NewSpinner: err nil, done false, the inner spinner on its first frame.
NewSpinner == [done |-> FALSE, err |-> Nil, frame |-> 0]

\* The messages Update can be handed.
KeyCtrlC == [type |-> "key", key |-> "ctrl+c", err |-> Nil]
KeyOther == [type |-> "key", key |-> "a", err |-> Nil]
TickMsg == [type |-> "tick", key |-> "", err |-> Nil]
BatchMsg == [type |-> "batch", key |-> "", err |-> Nil]
QuitMsg == [type |-> "quit", key |-> "", err |-> Nil]
spinnerMsgStop(e) == [type |-> "stop", key |-> "", err |-> e]

\* A slip of the tick handling: the frame advances, no next tick is armed.
innerUpdateNoRearm(m, msg) ==
    IF msg.type = "tick"
    THEN [m |-> [m EXCEPT !.frame = (m.frame + 1) % NumFrames], cmd |-> "none"]
    ELSE [m |-> m, cmd |-> "none"]

\* spinner.Model.Update as SpinnerModel.Update uses it: a TickMsg advances
\* the frame and re-arms the next tick, any other message changes nothing.
innerUpdate(m, msg) ==
    IF msg.type = "tick"
    THEN [m |-> [m EXCEPT !.frame = (m.frame + 1) % NumFrames], cmd |-> "tick"]
    ELSE [m |-> m, cmd |-> "none"]

\* A slip of Update: Ctrl-C is recorded as a failed result.
UpdateCtrlCFails(m, msg) ==
    IF msg.type = "key" /\ msg.key = "ctrl+c"
    THEN [m |-> [m EXCEPT !.done = TRUE, !.err = "boom"], cmd |-> "quit"]
    ELSE IF msg.type = "stop"
    THEN [m |-> [m EXCEPT !.done = TRUE,
                          !.err = IF msg.err # Nil THEN msg.err ELSE m.err],
          cmd |-> "quit"]
    ELSE innerUpdate(m, msg)

\* A slip of Update: a tick clears the recorded result.
UpdateTickResets(m, msg) ==
    IF msg.type = "key" /\ msg.key = "ctrl+c"
    THEN [m |-> m, cmd |-> "quit"]
    ELSE IF msg.type = "stop"
    THEN [m |-> [m EXCEPT !.done = TRUE,
                          !.err = IF msg.err # Nil THEN msg.err ELSE m.err],
          cmd |-> "quit"]
    ELSE innerUpdate([m EXCEPT !.done = FALSE, !.err = Nil], msg)

\* SpinnerModel.Update, on a copy m of its receiver: the new model it
\* returns and the command it returns.
Update(m, msg) ==
    IF msg.type = "key" /\ msg.key = "ctrl+c"
    THEN [m |-> m, cmd |-> "quit"]
    ELSE IF msg.type = "stop"
    THEN [m |-> [m EXCEPT !.done = TRUE,
                          !.err = IF msg.err # Nil THEN msg.err ELSE m.err],
          cmd |-> "quit"]
    ELSE innerUpdate(m, msg)

\* SpinnerModel.View: which line is rendered.
View(m) ==
    IF ~m.done
    THEN [kind |-> "progress", frame |-> m.frame, err |-> Nil]
    ELSE IF m.err # Nil
    THEN [kind |-> "failed", frame |-> 0, err |-> m.err]
    ELSE [kind |-> "done", frame |-> 0, err |-> Nil]

\* The model the loop holds is first the pointer Spin passed to
\* tea.NewProgram; Update has a value receiver and returns the copy it
\* changed, so from the first Update on the loop holds a value.
Deref(md) == IF md.isPtr THEN s ELSE md.val

\* The messages a returned command sends to the program.
CmdMsgs(cmd) ==
    CASE cmd = "quit" -> {QuitMsg}
      [] cmd = "tick" -> {TickMsg}
      [] OTHER -> {}

\* No table is being built (the etable package is not in use).
TableIdle ==
    /\ colsMem = <<>>
    /\ rowsMem = <<>>
    /\ t = [columns |-> "none", rows |-> "none", style |-> "none"]
    /\ out = [kind |-> "none"]

\* hist records, in order, the first Ctrl-C and the completion message the
\* loop has handed to Update.
Processed(what) == \E i \in 1..Len(hist) : hist[i] = what

SpinInit ==
    /\ pc = "new"
    /\ s = NewSpinner
    /\ model = [isPtr |-> TRUE, val |-> NewSpinner]
    /\ msgs = {}
    /\ task = "idle"
    /\ taskErr \in {Nil} \cup TaskErrors
    /\ taskCalls = 0
    /\ stopSent = 0
    /\ rendered = {}
    /\ ret = "none"
    /\ hist = <<>>
    /\ TableIdle

\* Spin, tp.Run starting: the program takes the pointer as its model, sends
\* the command of Init to the command runner and renders the first view.
SpinStart ==
    /\ UNCHANGED tableVars
    /\ pc = "new"
    /\ pc' = "running"
    /\ model' = [isPtr |-> TRUE, val |-> s]
    /\ msgs' = {BatchMsg}
    /\ rendered' = rendered \cup {View(s)}
    /\ UNCHANGED <<s, task, taskErr, taskCalls, stopSent, ret, hist>>

\* Spin, tp.Run failing (no terminal to open): Spin returns that error.
SpinRunFails ==
    /\ UNCHANGED tableVars
    /\ pc = "new"
    /\ \E e \in RunErrors :
        /\ pc' = "returned"
        /\ ret' = e
    /\ UNCHANGED <<s, model, msgs, task, taskErr, taskCalls, stopSent,
                   rendered, hist>>

\* The loop receives the batch of Init: both commands are started, each on
\* its own goroutine: the first tick, and the call of the task.
LoopBatch ==
    /\ UNCHANGED tableVars
    /\ pc = "running"
    /\ BatchMsg \in msgs
    /\ msgs' = (msgs \ {BatchMsg}) \cup {TickMsg}
    /\ task' = "running"
    /\ taskCalls' = taskCalls + 1
    /\ UNCHANGED <<pc, s, model, taskErr, stopSent, rendered, ret, hist>>

\* The task returns on its goroutine; the command sends spinnerMsgStop to
\* the program, which drops it if the loop has ended.
TaskReturns ==
    /\ UNCHANGED tableVars
    /\ task = "running"
    /\ task' = "returned"
    /\ IF pc = "running"
       THEN /\ msgs' = msgs \cup {spinnerMsgStop(taskErr)}
            /\ stopSent' = stopSent + 1
       ELSE UNCHANGED <<msgs, stopSent>>
    /\ UNCHANGED <<pc, s, model, taskErr, taskCalls, rendered, ret, hist>>

\* The loop hands msg to Update, keeps the model Update returns, runs the
\* command it returns and renders the view.
LoopUpdate(msg, rest) ==
    LET r == Update(Deref(model), msg) IN
    /\ model' = [isPtr |-> FALSE, val |-> r.m]
    /\ msgs' = rest \cup CmdMsgs(r.cmd)
    /\ rendered' = rendered \cup {View(r.m)}
    /\ UNCHANGED <<pc, s, task, taskErr, taskCalls, stopSent, ret>>

\* A tick arrives.
LoopTick ==
    /\ UNCHANGED tableVars
    /\ pc = "running"
    /\ TickMsg \in msgs
    /\ LoopUpdate(TickMsg, msgs \ {TickMsg})
    /\ UNCHANGED hist

\* The completion message arrives.
LoopStop ==
    /\ UNCHANGED tableVars
    /\ pc = "running"
    /\ \E e \in {Nil} \cup TaskErrors :
        /\ spinnerMsgStop(e) \in msgs
        /\ LoopUpdate(spinnerMsgStop(e), msgs \ {spinnerMsgStop(e)})
    /\ hist' = Append(hist, "stop")

\* The user presses a key: Ctrl-C or any other key.
LoopKey ==
    /\ UNCHANGED tableVars
    /\ pc = "running"
    /\ \E k \in {KeyCtrlC, KeyOther} :
        /\ LoopUpdate(k, msgs)
        /\ hist' = IF k = KeyCtrlC /\ ~Processed("ctrl+c")
                   THEN Append(hist, "ctrl+c") ELSE hist

\* The loop receives QuitMsg and ends; Run renders the final view and
\* returns a nil error, and Spin returns s.err.
LoopQuit ==
    /\ UNCHANGED tableVars
    /\ pc = "running"
    /\ QuitMsg \in msgs
    /\ pc' = "returned"
    /\ msgs' = {}
    /\ rendered' = rendered \cup {View(Deref(model))}
    /\ ret' = s.err
    /\ UNCHANGED <<s, model, task, taskErr, taskCalls, stopSent, hist>>

SpinNext ==
    \/ SpinStart
    \/ SpinRunFails
    \/ LoopBatch
    \/ TaskReturns
    \/ LoopTick
    \/ LoopStop
    \/ LoopKey
    \/ LoopQuit

SpinSpec == SpinInit /\ [][SpinNext]_vars


\* Go's select receives a pending message sooner or later: a completion or
\* quit message that stays in flight is eventually received by the loop.
SpinFairSpec ==
    /\ SpinInit
    /\ [][SpinNext]_vars
    /\ WF_vars(LoopStop)
    /\ WF_vars(LoopQuit)

-----------------------------------------------------------------------------
(* etable: strings                                                         *)

\* A Go string is modelled as the sequence of its runes.  Every rune here is
\* one byte of UTF-8 except E9 (U+00E9), which is two.
E9 == "U+00E9"
ByteWidth(c) == IF c = E9 THEN 2 ELSE 1

\* Go's len(value): the number of bytes.
RECURSIVE len(_)
len(v) == IF v = <<>> THEN 0 ELSE ByteWidth(Head(v)) + len(Tail(v))

Ellipsis == <<".", ".", ".">>
BadPrec == <<"%", "!", "(", "B", "A", "D", "P", "R", "E", "C", ")">>

\* fmt.Sprintf("%.*s...", prec, value): the precision counts runes; a
\* negative precision is reported as %!(BADPREC) and then ignored.
Sprintf(prec, value) ==
    IF prec < 0
    THEN BadPrec \o value \o Ellipsis
    ELSE SubSeq(value, 1, IF prec < Len(value) THEN prec ELSE Len(value)) \o Ellipsis

-----------------------------------------------------------------------------
(* etable: columns                                                         *)

\* The value functions and style functions a caller supplies are modelled
\* by name: the defaults of NewTableColumn ("identity", "plain") and a few
\* others.
applyValueFunc(f, value) ==
    CASE f = "identity" -> value
      [] f = "blank" -> <<>>
      [] f = "star" -> <<"*">> \o value

OK == <<"O", "K">>

applyStyleFunc(f, style, value) ==
    CASE f = "plain" -> style
      [] f = "boldIfOK" -> IF value = OK THEN [style EXCEPT !.bold = TRUE] ELSE style

NewTableColumn(key, title) ==
    [key |-> key, title |-> title, active |-> TRUE, maxWidth |-> -1,
     emptyString |-> <<>>, alignment |-> "left",
     valueFunc |-> "identity", styleFunc |-> "plain"]

WithMaxWidth(c, w) == [c EXCEPT !.maxWidth = w]
WithAlignment(c, a) == [c EXCEPT !.alignment = a]
WithActive(c, a) == [c EXCEPT !.active = a]
WithEmptyString(c, str) == [c EXCEPT !.emptyString = str]
WithValueFunc(c, f) == [c EXCEPT !.valueFunc = f]
WithStyleFunc(c, f) == [c EXCEPT !.styleFunc = f]

-----------------------------------------------------------------------------
(* etable: the table                                                       *)

\* A Table holds two slices.  A slice is a reference to an array: columns
\* refers to the array NewTable was given, rows to the fresh empty array of
\* NewTable or to the array WithRows was given.  A TableRow is a map, also
\* a reference, reached only through the rows array.
Array(ref) ==
    CASE ref = "callerColumns" -> colsMem
      [] ref = "callerRows" -> rowsMem
      [] OTHER -> <<>>

NoTable == [columns |-> "none", rows |-> "none", style |-> "none"]

NewTable(columns) ==
    [columns |-> columns, rows |-> "empty", style |-> "TableStyleDefault"]

WithStyle(tb, st) == [tb EXCEPT !.style = st]

WithRows(tb, rows) == [tb EXCEPT !.rows = rows]

\* rowEntry[col.key]: a missing key gives the empty string.
lookup(rowEntry, key) ==
    IF key \in DOMAIN rowEntry THEN rowEntry[key] ELSE <<>>

\* A slip of the cell code: the substitute replaces an empty raw value, not
\* an empty transformed value.
cellValueSubstFirst(col, rowEntry) ==
    LET raw == lookup(rowEntry, col.key)
        v1 == IF raw = <<>> THEN col.emptyString
              ELSE applyValueFunc(col.valueFunc, raw)
    IN  IF col.maxWidth > 0 /\ col.maxWidth < len(v1)
        THEN Sprintf(col.maxWidth - 3, v1)
        ELSE v1

\* getRowMatrix, the body of the inner loop for one active column.
cellValue(col, rowEntry) ==
    LET v1 == applyValueFunc(col.valueFunc, lookup(rowEntry, col.key))
        v2 == IF v1 = <<>> THEN col.emptyString ELSE v1
    IN  IF col.maxWidth > 0 /\ col.maxWidth < len(v2)
        THEN Sprintf(col.maxWidth - 3, v2)
        ELSE v2

\* getRowMatrix, the inner loop: the cells of the active columns, in order.
rowCells(columns, rowEntry) ==
    LET row[i \in 0..Len(columns)] ==
            IF i = 0 THEN <<>>
            ELSE IF ~columns[i].active THEN row[i - 1]
            ELSE Append(row[i - 1], cellValue(columns[i], rowEntry))
    IN  row[Len(columns)]

getRowMatrix(tb) ==
    [r \in 1..Len(Array(tb.rows)) |-> rowCells(Array(tb.columns), Array(tb.rows)[r])]

\* The titles of the active columns (the header loops of Render and
\* ExportCSV).
headers(columns) ==
    LET h[i \in 0..Len(columns)] ==
            IF i = 0 THEN <<>>
            ELSE IF ~columns[i].active THEN h[i - 1]
            ELSE Append(h[i - 1], columns[i].title)
    IN  h[Len(columns)]

\* A slip of Render's first loop: the offset is not accumulated.
columnOffsetsLastOnly(columns) ==
    LET st[i \in 0..Len(columns)] ==
            IF i = 0 THEN [offset |-> 0, offsets |-> <<>>]
            ELSE IF ~columns[i].active
            THEN [offset |-> 1, offsets |-> st[i - 1].offsets]
            ELSE [offset |-> 0,
                  offsets |-> Append(st[i - 1].offsets, st[i - 1].offset)]
    IN  st[Len(columns)].offsets

\* Render's first loop: for each active column, how many inactive columns
\* come before it.
columnOffsets(columns) ==
    LET st[i \in 0..Len(columns)] ==
            IF i = 0 THEN [offset |-> 0, offsets |-> <<>>]
            ELSE IF ~columns[i].active
            THEN [offset |-> st[i - 1].offset + 1, offsets |-> st[i - 1].offsets]
            ELSE [offset |-> st[i - 1].offset,
                  offsets |-> Append(st[i - 1].offsets, st[i - 1].offset)]
    IN  st[Len(columns)].offsets

\* table.HeaderRow of lipgloss; data rows are numbered from 0.
HeaderRow == -1

\* The style the StyleFunc closure of Render returns for grid position
\* (row, col), both counted from 0, and the index (from 0) of the column of
\* t.columns it used.
StyleFunc(tb, rows, offsets, row, col) ==
    LET index == col + offsets[col + 1]
        column == Array(tb.columns)[index + 1]
        sty == IF row = HeaderRow
               THEN [base |-> "HeaderStyle", of |-> tb.style, bold |-> FALSE]
               ELSE applyStyleFunc(column.styleFunc,
                                   [base |-> "RowStyle", of |-> tb.style, bold |-> FALSE],
                                   rows[row + 1][col + 1])
    IN  [index |-> index, base |-> sty.base, of |-> sty.of, bold |-> sty.bold,
         align |-> column.alignment]

\* Render: the headers, the rows and the style of every cell handed to the
\* lipgloss table, which asks StyleFunc for every header and body cell.
Render(tb) ==
    LET hs == headers(Array(tb.columns))
        offsets == columnOffsets(Array(tb.columns))
        rows == getRowMatrix(tb)
    IN  [kind |-> "grid",
         headers |-> hs,
         rows |-> rows,
         headerStyles |-> [c \in 1..Len(hs) |->
                              StyleFunc(tb, rows, offsets, HeaderRow, c - 1)],
         styles |-> [r \in 1..Len(rows) |-> [c \in 1..Len(rows[r]) |->
                              StyleFunc(tb, rows, offsets, r - 1, c - 1)]]]

-----------------------------------------------------------------------------
(* etable: CSV                                                             *)

Comma == ","
Quote == "\""
LF == "\n"
CR == "\r"

\* csv.Writer.fieldNeedsQuotes: the empty field is written bare.
fieldNeedsQuotes(field) ==
    IF field = <<>> THEN FALSE
    ELSE IF field = <<"\\", ".">> THEN TRUE
    ELSE \/ \E i \in 1..Len(field) : field[i] \in {Comma, Quote, CR, LF}
         \/ field[1] \in {" ", "\t"}

\* A quoted field: a quote inside it is doubled.
RECURSIVE quoted(_)
quoted(field) ==
    IF field = <<>> THEN <<>>
    ELSE (IF Head(field) = Quote THEN <<Quote, Quote>> ELSE <<Head(field)>>)
         \o quoted(Tail(field))

writeField(field) ==
    IF fieldNeedsQuotes(field) THEN <<Quote>> \o quoted(field) \o <<Quote>>
    ELSE field

\* csv.Writer.Write: the fields joined by commas, then a line feed.
csvWrite(record) ==
    LET line[i \in 0..Len(record)] ==
            IF i = 0 THEN <<>>
            ELSE line[i - 1] \o (IF i > 1 THEN <<Comma>> ELSE <<>>)
                             \o writeField(record[i])
    IN  line[Len(record)] \o <<LF>>

\* csv.Writer.WriteAll: every record in turn.
RECURSIVE csvWriteAll(_)
csvWriteAll(records) ==
    IF records = <<>> THEN <<>>
    ELSE csvWrite(Head(records)) \o csvWriteAll(Tail(records))

\* ExportCSV: the header record, then the rows of getRowMatrix, written to
\* w; the error of w, if it fails, is returned.
ExportCSV(tb, werr) ==
    LET header == headers(Array(tb.columns))
        rows == getRowMatrix(tb)
    IN  [kind |-> "csv",
         records |-> <<header>> \o rows,
         text |-> IF werr = Nil THEN csvWrite(header) \o csvWriteAll(rows) ELSE <<>>,
         err |-> werr]

\* Reading CSV text back, as csv.Reader does: a quoted field ends at a quote
\* that is not doubled, and \r\n inside it is read as \n.
RECURSIVE readQuoted(_, _, _)
readQuoted(text, i, acc) ==
    IF i > Len(text) THEN [val |-> acc, next |-> i]
    ELSE IF text[i] = Quote
    THEN IF i + 1 <= Len(text) /\ text[i + 1] = Quote
         THEN readQuoted(text, i + 2, Append(acc, Quote))
         ELSE [val |-> acc, next |-> i + 1]
    ELSE IF text[i] = CR /\ i + 1 <= Len(text) /\ text[i + 1] = LF
    THEN readQuoted(text, i + 2, Append(acc, LF))
    ELSE readQuoted(text, i + 1, Append(acc, text[i]))

\* A bare field ends at the next comma or line feed.
RECURSIVE readBare(_, _, _)
readBare(text, i, acc) ==
    IF i > Len(text) \/ text[i] \in {Comma, LF}
    THEN [val |-> acc, next |-> i]
    ELSE readBare(text, i + 1, Append(acc, text[i]))

readField(text, i) ==
    IF i <= Len(text) /\ text[i] = Quote
    THEN readQuoted(text, i + 1, <<>>)
    ELSE readBare(text, i, <<>>)

RECURSIVE readRecord(_, _, _)
readRecord(text, i, fields) ==
    LET f == readField(text, i)
        fs == Append(fields, f.val)
    IN  IF f.next <= Len(text) /\ text[f.next] = Comma
        THEN readRecord(text, f.next + 1, fs)
        ELSE [fields |-> fs, next |-> f.next + 1]

\* csv.Reader.ReadAll: the records of the text; an empty line is skipped.
RECURSIVE readAll(_, _, _)
readAll(text, i, records) ==
    IF i > Len(text) THEN records
    ELSE IF text[i] = LF THEN readAll(text, i + 1, records)
    ELSE LET r == readRecord(text, i, <<>>)
         IN  readAll(text, r.next, Append(records, r.fields))

csvRead(text) == readAll(text, 1, <<>>)

-----------------------------------------------------------------------------
(* etable: the caller                                                      *)

\* The most rows a caller's slice holds.
MaxRows == 2

\* The spinner is not in use.
SpinIdle ==
    /\ pc = "idle"
    /\ s = NewSpinner
    /\ model = [isPtr |-> TRUE, val |-> NewSpinner]
    /\ msgs = {}
    /\ task = "idle"
    /\ taskErr = Nil
    /\ taskCalls = 0
    /\ stopSent = 0
    /\ rendered = {}
    /\ ret = "none"
    /\ hist = <<>>

\* The three columns of the tables of TableSpec, built with the builders;
\* each may be shown or hidden.
TableColumns(a1, a2, a3) ==
    << WithActive(NewTableColumn("id", <<"I", "D">>), a1),
       WithActive(WithStyleFunc(WithMaxWidth(WithEmptyString(WithAlignment(
           NewTableColumn("status", <<"S", "t", "a", "t", "u", "s">>), "center"), <<"-">>), 5), "boldIfOK"), a2),
       WithActive(WithValueFunc(WithAlignment(
           NewTableColumn("name", <<"N", "a", "m", "e">>), "right"), "star"), a3) >>

TableRowChoices ==
    { [id |-> <<"1">>, status |-> OK, name |-> <<"a", Comma, Quote, "b">>],
      [id |-> <<"2">>, status |-> <<"F", "A", "I", "L", "E", "D">>],
      [status |-> OK] }

\* The one column of the tables of CellSpec: every width, substitute and
\* value function.
CellWidths == {-1, 0, 1, 3, 4, 5}
CellEmptyStrings == {<<>>, <<"-">>, <<"(", "n", "o", "n", "e", ")">>}
CellValueFuncs == {"identity", "blank", "star"}

CellColumns ==
    { WithValueFunc(WithEmptyString(WithMaxWidth(
          NewTableColumn("cell", <<"C", "e", "l", "l">>), w), e), f) :
        w \in CellWidths, e \in CellEmptyStrings, f \in CellValueFuncs }

CellRowChoices ==
    { << >>,
      [cell |-> <<>>],
      [cell |-> <<"a", "b", "c", "d">>],
      [cell |-> <<"a", "b", "c", "d", "e", "f", "g">>],
      [cell |-> <<E9, E9, E9>>],
      [cell |-> <<"a", E9, E9, E9, E9, E9>>] }

RowSlices(choices, n) == UNION { [1..k -> choices] : k \in 0..n }

TableInit ==
    /\ SpinIdle
    /\ colsMem \in { TableColumns(a1, a2, a3) : a1 \in BOOLEAN, a2 \in BOOLEAN, a3 \in BOOLEAN }
    /\ rowsMem \in RowSlices(TableRowChoices, MaxRows)
    /\ t = NoTable
    /\ out = [kind |-> "none"]

CellInit ==
    /\ SpinIdle
    /\ colsMem \in { <<c>> : c \in CellColumns }
    /\ rowsMem \in { <<r>> : r \in CellRowChoices }
    /\ t = NoTable
    /\ out = [kind |-> "none"]

\* t := etable.NewTable(columns)
CallNewTable ==
    /\ UNCHANGED spinVars
    /\ t = NoTable
    /\ t' = NewTable("callerColumns")
    /\ out' = [kind |-> "none"]
    /\ UNCHANGED <<colsMem, rowsMem>>

\* t = t.WithRows(rows)
CallWithRows ==
    /\ UNCHANGED spinVars
    /\ t # NoTable /\ t.rows = "empty"
    /\ t' = WithRows(t, "callerRows")
    /\ out' = [kind |-> "none"]
    /\ UNCHANGED <<colsMem, rowsMem>>

\* t = t.WithStyle(s)
CallWithStyle ==
    /\ UNCHANGED spinVars
    /\ t # NoTable
    /\ \E st \in {"TableStyleDefault", "TableStyleMarkdown"} \ {t.style} :
        t' = WithStyle(t, st)
    /\ out' = [kind |-> "none"]
    /\ UNCHANGED <<colsMem, rowsMem>>

\* t.Render()
CallRender ==
    /\ UNCHANGED spinVars
    /\ t # NoTable
    /\ out' = Render(t)
    /\ UNCHANGED <<colsMem, rowsMem, t>>

\* t.ExportCSV(w), with a writer that works or one that fails.
CallExportCSV ==
    /\ UNCHANGED spinVars
    /\ t # NoTable
    /\ \E werr \in {Nil, "write error"} : out' = ExportCSV(t, werr)
    /\ UNCHANGED <<colsMem, rowsMem, t>>

\* The caller writes an element of its columns slice:
\* columns[i] = columns[i].WithActive(!active)
CallerSetsColumn ==
    /\ UNCHANGED spinVars
    /\ \E i \in 1..Len(colsMem) :
        colsMem' = [colsMem EXCEPT ![i] = WithActive(@, ~@.active)]
    /\ out' = [kind |-> "none"]
    /\ UNCHANGED <<rowsMem, t>>

\* The caller writes into one of its row maps: rows[i][key] = "x", for the
\* key of the first column.
CallerSetsCell ==
    /\ UNCHANGED spinVars
    /\ \E i \in 1..Len(rowsMem) :
        LET key == colsMem[1].key
            row == rowsMem[i]
            new == [k \in DOMAIN row \cup {key} |->
                        IF k = key THEN <<"x">> ELSE row[k]]
        IN  /\ new # row
            /\ rowsMem' = [rowsMem EXCEPT ![i] = new]
    /\ out' = [kind |-> "none"]
    /\ UNCHANGED <<colsMem, t>>

TableNext ==
    \/ CallNewTable
    \/ CallWithRows
    \/ CallWithStyle
    \/ CallRender
    \/ CallExportCSV
    \/ CallerSetsColumn
    \/ CallerSetsCell

TableSpec == TableInit /\ [][TableNext]_vars

CellSpec == CellInit /\ [][TableNext]_vars

-----------------------------------------------------------------------------
(* espinner: the claims                                                    *)

\* The model the event loop holds, and the spec's name for its state.
LoopModel == Deref(model)

SpinnerState ==
    IF ~LoopModel.done THEN "Running"
    ELSE IF LoopModel.err = Nil THEN "DoneSuccess" ELSE "DoneFailure"

FailureRendered == \E v \in rendered : v.kind = "failed"

\* The run ended through the loop (tp.Run returned a nil error).
LoopEnded == pc = "returned" /\ ret \notin RunErrors

\* The interrupt was processed before any completion message.
InterruptFirst == hist # <<>> /\ hist[1] = "ctrl+c"

\* C1: when the completion message is processed with no interrupt before
\* it, Spin returns exactly the task's error (nil for nil), and what Spin
\* returns is the error Update recorded on the model the loop holds.
C1_SpinReturnsTaskError ==
    (LoopEnded /\ hist # <<>> /\ hist[1] = "stop")
        => (ret = taskErr /\ ret = LoopModel.err)

\* The step in which the loop hands the completion message carrying e to
\* Update.
C8_StopStep(e) ==
    /\ pc = "running" /\ pc' = "running"
    /\ spinnerMsgStop(e) \in msgs
    /\ spinnerMsgStop(e) \notin msgs'

C8_Transitions ==
    /\ SpinnerState' # SpinnerState
         => SpinnerState = "Running" /\ SpinnerState' # "Running"
    /\ \A e \in {Nil} \cup TaskErrors :
         C8_StopStep(e) => /\ LoopModel'.done
                           /\ LoopModel'.err = e
                           /\ QuitMsg \in msgs'
                           /\ View(LoopModel') \in rendered'
    /\ LoopModel.done => LoopModel'.done /\ LoopModel'.err = LoopModel.err

C8_ErrOnlyWhenDone == LoopModel.err # Nil => LoopModel.done

C9_Safe ==
    InterruptFirst =>
        /\ pc = "returned" => ret = Nil
        /\ ~Processed("stop") => ~LoopModel.done /\ ~FailureRendered
        /\ pc = "running" => QuitMsg \in msgs
        /\ pc = "running" /\ task = "running" => ENABLED TaskReturns

C9_ReturnIsFinal == pc = "returned" => pc' = "returned" /\ ret' = ret

C10_EveryRunInvokesTaskOnce ==
    /\ taskCalls <= 1
    /\ pc = "returned" => taskCalls = 1

C10_Safe ==
    /\ taskCalls <= 1 /\ stopSent <= 1
    /\ (task # "idle") = (taskCalls = 1)
    /\ pc = "running" /\ BatchMsg \notin msgs => taskCalls = 1
    /\ stopSent = 1 => task = "returned"
    /\ pc = "running" /\ task # "idle" => TickMsg \in msgs /\ ENABLED LoopTick

C10_TaskReturnedUninterrupted ==
    task = "returned" /\ stopSent = 1 /\ ~Processed("ctrl+c")

C10_DoneAndEnded ==
    Processed("stop") /\ LoopModel.done /\ pc = "returned"

\* C10 amended: the task is invoked at most once, on its own goroutine, when
\* the loop receives the batch of Init (never, if the program fails to
\* start or is quit before that); at most one completion message is sent;
\* from then until the loop ends a tick is always in flight and the loop
\* can take it whatever the task is doing; and, under fair delivery, once
\* the task has returned with no interrupt processed, the loop processes
\* the completion message, reaches Done and ends, unless an interrupt is
\* processed first.
C10_TaskOnceAndDelivered ==
    /\ []C10_Safe
    /\ (C10_TaskReturnedUninterrupted ~> (C10_DoneAndEnded \/ InterruptFirst))

\* C10 witness: ticks were processed, the task ran once, its one message
\* was processed with no interrupt, and the loop ended in Done.
C10_Witness ==
    /\ C10_DoneAndEnded /\ ~Processed("ctrl+c")
    /\ taskCalls = 1 /\ stopSent = 1
    /\ LoopModel.frame = 2

-----------------------------------------------------------------------------
(* etable: the claims                                                      *)

\* out is cleared by every step other than Render and ExportCSV, so while
\* it holds a result the table is the one the call was made on.
TColumns == Array(t.columns)
TRows == Array(t.rows)

\* The cell texts of the last call: the rows of the grid, or the records of
\* the export after the header record.
HasCells == out.kind = "grid" \/ (out.kind = "csv" /\ out.err = Nil)
OutMatrix == IF out.kind = "grid" THEN out.rows ELSE Tail(out.records)

\* The active columns in declared order, counted directly.
NumActive(columns) == Cardinality({i \in 1..Len(columns) : columns[i].active})

ActiveCol(columns, n) ==
    CHOOSE i \in 1..Len(columns) :
        /\ columns[i].active
        /\ Cardinality({j \in 1..i : columns[j].active}) = n

\* The steps of the cell pipeline as the spec lists them.
Step1(row, col) == IF col.key \in DOMAIN row THEN row[col.key] ELSE <<>>
Step2(row, col) == applyValueFunc(col.valueFunc, Step1(row, col))
Step3(row, col) == IF Step2(row, col) = <<>> THEN col.emptyString ELSE Step2(row, col)
Step4(row, col) ==
    IF col.maxWidth > 0 /\ len(Step3(row, col)) > col.maxWidth
    THEN Sprintf(col.maxWidth - 3, Step3(row, col))
    ELSE Step3(row, col)

\* P holds of every cell of the last call: of its text, its row and its
\* column.
EveryCell(P(_, _, _)) ==
    HasCells =>
        \A r \in 1..Len(OutMatrix) : \A n \in 1..Len(OutMatrix[r]) :
            P(OutMatrix[r][n], TRows[r], TColumns[ActiveCol(TColumns, n)])

C2_Cell(text, row, col) ==
    /\ text = Step4(row, col)
    /\ Step2(row, col) # <<>> => Step3(row, col) = Step2(row, col)

\* C2: every cell of getRowMatrix is look-up, then valueFunc, then the
\* substitute if and only if the transformed value is empty, then
\* truncation (of the substitute too); one cell per active column.
C2_CellPipeline ==
    /\ EveryCell(C2_Cell)
    /\ HasCells => /\ Len(OutMatrix) = Len(TRows)
                   /\ \A r \in 1..Len(OutMatrix) :
                          Len(OutMatrix[r]) = NumActive(TColumns)

\* C2 witness: a non-empty raw value blanked by valueFunc, replaced by the
\* substitute "(none)", itself truncated to width 5.
C2_Witness ==
    /\ out.kind = "grid" /\ Len(out.rows) = 1 /\ Len(out.rows[1]) = 1
    /\ TColumns[1].valueFunc = "blank" /\ TColumns[1].maxWidth = 5
    /\ Step1(TRows[1], TColumns[1]) = <<"a", "b", "c", "d">>
    /\ out.rows[1][1] = <<"(", "n", ".", ".", ".">>

C3_CellBy(length(_), text, v, w) ==
    IF w > 3 /\ length(v) > w
    THEN length(text) = w /\ text = SubSeq(v, 1, w - 3) \o Ellipsis
    ELSE (w <= 0 \/ length(v) <= w) => text = v

C3_Cell(text, row, col) ==
    \/ C3_CellBy(len, text, Step3(row, col), col.maxWidth)
    \/ C3_CellBy(Len, text, Step3(row, col), col.maxWidth)

\* C3: with v the value before truncation and maxWidth > 3: if v is longer
\* than maxWidth the cell has length exactly maxWidth and is the first
\* maxWidth-3 characters of v followed by "..."; if v is not longer, or
\* maxWidth is not positive, the cell is v.  Length is read as bytes or as
\* characters, whichever makes the cell pass.
C3_TruncationKeepsWidth == EveryCell(C3_Cell)

C4_Cell(text, row, col) ==
    ~(0 < col.maxWidth /\ col.maxWidth <= 3 /\ len(Step3(row, col)) > col.maxWidth)

\* C4: a width of 1, 2 or 3 is an error: no call produces cell text for a
\* column of such a width and a value longer than it.
C4_NarrowWidthIsRejected == EveryCell(C4_Cell)

C5_StyleOf(sty, columns, i) ==
    /\ sty.index + 1 = ActiveCol(columns, i)
    /\ sty.align = columns[ActiveCol(columns, i)].alignment
    /\ sty.of = t.style

\* C5: the i-th rendered column is the i-th active column, in the headers,
\* in the cells of every row and in the column the style callback uses at
\* grid position (row, i); every row has as many cells as there are
\* headers.
C5_ColumnsLineUp ==
    out.kind = "grid" =>
        /\ Len(out.headers) = NumActive(TColumns)
        /\ Len(out.rows) = Len(TRows)
        /\ \A i \in 1..Len(out.headers) :
            LET col == TColumns[ActiveCol(TColumns, i)] IN
            /\ out.headers[i] = col.title
            /\ C5_StyleOf(out.headerStyles[i], TColumns, i)
            /\ out.headerStyles[i].base = "HeaderStyle"
        /\ \A r \in 1..Len(out.rows) :
            /\ Len(out.rows[r]) = Len(out.headers)
            /\ \A i \in 1..Len(out.rows[r]) :
                LET col == TColumns[ActiveCol(TColumns, i)] IN
                /\ out.rows[r][i] = Step4(TRows[r], col)
                /\ C5_StyleOf(out.styles[r][i], TColumns, i)
                /\ out.styles[r][i].base = "RowStyle"
                /\ out.styles[r][i].bold =
                       (col.styleFunc = "boldIfOK" /\ out.rows[r][i] = OK)

\* C5 witness: the first column hidden, two shown, two rows, and the
\* "OK" cell of the second declared column bold at grid column 0.
C5_Witness ==
    /\ out.kind = "grid"
    /\ ~TColumns[1].active /\ TColumns[2].active /\ TColumns[3].active
    /\ Len(out.rows) = 2
    /\ out.styles[1][1].bold /\ out.styles[1][1].index = 1
    /\ out.styles[1][2].align = "right"

\* C6: ExportCSV hands the writer the active titles and then, row by row,
\* the cell texts Render hands the grid, and reading the written text back
\* gives those records.
C6_CsvRoundTrip ==
    (out.kind = "csv" /\ out.err = Nil) =>
        /\ out.records = <<Render(t).headers>> \o Render(t).rows
        /\ csvRead(out.text) = out.records

C7_TableUntouched ==
    (t # NoTable /\ t' = t) =>
        /\ Array(t.columns)' = Array(t.columns)
        /\ Array(t.rows)' = Array(t.rows)
        /\ Render(t)' = Render(t)

\* C7: a step that calls no builder (a write through the slices or maps
\* the caller passed in) leaves the columns, the rows and the rendered
\* output of the table a builder returned as they were.
C7_BuildersReturnIndependentCopies == [][C7_TableUntouched]_vars

=============================================================================
